---- MODULE Spec2Model ----
(***************************************************************************)
(* Model of buildlog_consultant/apt.py: the Problem taxonomy and its       *)
(* equality, the apt/dpkg line scanner find_apt_get_failure, the CUDF      *)
(* extractor find_cudf_output, the dose3 interpreter                       *)
(* error_from_dose3_report and the locator                                 *)
(* find_install_deps_failure_description.                                  *)
(*                                                                         *)
(* A line of text is a sequence of tokens.  A token stands for a run of    *)
(* characters that the patterns of apt.py never split: a word or phrase,   *)
(* one space " ", one newline "\n", or one punctuation mark.  The string   *)
(* methods and the regular expressions of the source are computed on     *)
(* these sequences the way Python computes them on characters.             *)
(***************************************************************************)
EXTENDS Integers, Sequences, FiniteSets, TLC

VARIABLES pc, lines, report, paragraphs, self, other, ret

vars == <<pc, lines, report, paragraphs, self, other, ret>>

(***************************************************************************)
(* Python values.                                                          *)
(***************************************************************************)
\* None is the empty tuple and any other optional value x the 1-tuple <<x>>.
None == <<>>

Some(x) == <<x>>

\* A call either returns a value or raises an exception.
Return(v) == [kind |-> "return", value |-> v]

Raise(e) == [kind |-> "raise", exc |-> e]

\* seq[k] of Python, k counted from 0: a negative k counts from the end, and
\* an index outside -len..len-1 raises IndexError (the empty tuple here).
PyIndex(seq, k) ==
  IF k >= 0 /\ k < Len(seq) THEN Some(seq[k + 1])
  ELSE IF k < 0 /\ k >= 0 - Len(seq) THEN Some(seq[Len(seq) + k + 1])
  ELSE None

(***************************************************************************)
(* str methods and regular-expression pieces, on token sequences.          *)
(***************************************************************************)
Whitespace == {" ", "\n"}

startswith(s, p) == Len(s) >= Len(p) /\ SubSeq(s, 1, Len(p)) = p

endswith(s, p) == Len(s) >= Len(p) /\ SubSeq(s, Len(s) - Len(p) + 1, Len(s)) = p

RECURSIVE lstrip(_, _)
lstrip(s, chars) ==
  IF s # <<>> /\ Head(s) \in chars THEN lstrip(Tail(s), chars) ELSE s

RECURSIVE rstrip(_, _)
rstrip(s, chars) ==
  IF s # <<>> /\ s[Len(s)] \in chars
  THEN rstrip(SubSeq(s, 1, Len(s) - 1), chars) ELSE s

\* str.strip(chars); strip() without argument strips Whitespace.
strip(s, chars) == rstrip(lstrip(s, chars), chars)

\* The part of s from position `from` on (1-based), <<>> when past the end.
From(s, from) == SubSeq(s, from, Len(s))

\* s has the tokens of pat at position j.
At(s, j, pat) == j >= 1 /\ j + Len(pat) - 1 <= Len(s) /\ SubSeq(s, j, j + Len(pat) - 1) = pat

\* The positions j >= from where "(.*)pat" can end its group: pat stands at j
\* and no newline lies in from..j-1 ("." does not match a newline).
DotStarThen(s, from, pat) ==
  {j \in from..(Len(s) + 1) :
     At(s, j, pat) /\ \A k \in from..(j - 1) : s[k] # "\n"}

Max(S) == CHOOSE x \in S : \A y \in S : y <= x

Min(S) == CHOOSE x \in S : \A y \in S : x <= y

\* What a trailing "(.*)" captures from position `from`: up to the first newline.
DotStar(s, from) ==
  LET nl == {k \in from..Len(s) : s[k] = "\n"}
  IN  IF nl = {} THEN From(s, from) ELSE SubSeq(s, from, Min(nl) - 1)

\* The length of what "[^c]+" captures at position `from`: the longest run of
\* tokens other than c.
RECURSIVE RunNot(_, _, _)
RunNot(s, from, c) ==
  IF from <= Len(s) /\ s[from] # c THEN 1 + RunNot(s, from + 1, c) ELSE 0

(***************************************************************************)
(* The Problem taxonomy (apt.py:28-122, 215-246).                          *)
(***************************************************************************)
DpkgError(error) == [variant |-> "DpkgError", error |-> error]

AptFetchFailure(url, error) == [variant |-> "AptFetchFailure", url |-> url, error |-> error]

AptMissingReleaseFile(url) == [variant |-> "AptMissingReleaseFile", url |-> url]

AptPackageUnknown(package) == [variant |-> "AptPackageUnknown", package |-> package]

AptBrokenPackages(description) == [variant |-> "AptBrokenPackages", description |-> description]

NoSpaceOnDevice == [variant |-> "NoSpaceOnDevice"]

UnsatisfiedDependencies(relations) == [variant |-> "UnsatisfiedDependencies", relations |-> relations]

UnsatisfiedConflicts(relations) == [variant |-> "UnsatisfiedConflicts", relations |-> relations]

\* The classes a class derives from, itself included.
Bases(cls) ==
  IF cls \in {"AptFetchFailure", "AptMissingReleaseFile"}
  THEN {cls, "AptUpdateError", "Problem"}
  ELSE {cls, "Problem"}

isinstance(obj, cls) == cls \in Bases(obj.variant)

DpkgError_eq(a, b) == isinstance(b, a.variant) /\ a.error = b.error

AptFetchFailure_eq(a, b) ==
  IF ~isinstance(b, a.variant) THEN FALSE
  ELSE IF a.url # b.url THEN FALSE
  ELSE IF a.error # b.error THEN FALSE
  ELSE TRUE

\* Line 83 compares self.url with self.url.
AptMissingReleaseFile_eq(a, b) ==
  IF ~isinstance(b, a.variant) THEN FALSE
  ELSE IF a.url # a.url THEN FALSE
  ELSE TRUE

AptPackageUnknown_eq(a, b) == isinstance(b, a.variant) /\ a.package = b.package

AptBrokenPackages_eq(a, b) == isinstance(b, a.variant) /\ a.description = b.description

UnsatisfiedDependencies_eq(a, b) == isinstance(b, a.variant) /\ a.relations = b.relations

UnsatisfiedConflicts_eq(a, b) == isinstance(b, a.variant) /\ a.relations = b.relations

\* a == b: Python calls the __eq__ of a's class.
Eq(a, b) ==
  CASE a.variant = "DpkgError" -> DpkgError_eq(a, b)
    [] a.variant = "AptFetchFailure" -> AptFetchFailure_eq(a, b)
    [] a.variant = "AptMissingReleaseFile" -> AptMissingReleaseFile_eq(a, b)
    [] a.variant = "AptPackageUnknown" -> AptPackageUnknown_eq(a, b)
    [] a.variant = "AptBrokenPackages" -> AptBrokenPackages_eq(a, b)
    [] a.variant = "UnsatisfiedDependencies" -> UnsatisfiedDependencies_eq(a, b)
    [] a.variant = "UnsatisfiedConflicts" -> UnsatisfiedConflicts_eq(a, b)

(***************************************************************************)
(* The patterns of find_apt_get_failure.  Each m_... is re.match of one    *)
(* pattern on a line: None, or Some(<<group 1, group 2, ...>>).            *)
(***************************************************************************)
FetchPrefix == <<"E:", " ", "Failed to fetch", " ">>

\* "^E: Failed to fetch ([^ ]+)  (.*)"
m_fetch(line) ==
  LET n == RunNot(line, 5, " ")
  IN  IF startswith(line, FetchPrefix) /\ n >= 1 /\ At(line, 5 + n, <<" ", " ">>)
      THEN Some(<<SubSeq(line, 5, 4 + n), DotStar(line, 7 + n)>>)
      ELSE None

BrokenPackagesLines ==
  { <<"E:", " ", "Broken packages">>,
    <<"E:", " ", "Unable to correct problems, you have held broken packages.">> }

\* "E: The repository '([^']+)' does not have a Release file."
m_release(line) ==
  LET n == RunNot(line, 6, "'")
  IN  IF /\ startswith(line, <<"E:", " ", "The repository", " ", "'">>)
         /\ n >= 1
         /\ At(line, 6 + n, <<"'", " ", "does not have a Release file">>)
         /\ 9 + n <= Len(line)
         /\ line[9 + n] # "\n"
      THEN Some(<<SubSeq(line, 6, 5 + n)>>)
      ELSE None

\* "dpkg-deb: error: unable to write file '(.*)': No space left on device"
m_dpkg_deb(line) ==
  LET J == DotStarThen(line, 4, <<"'", ":", " ", "No space left on device">>)
  IN  IF startswith(line, <<"dpkg-deb: error: unable to write file", " ", "'">>) /\ J # {}
      THEN Some(<<SubSeq(line, 4, Max(J) - 1)>>)
      ELSE None

\* "E: You don't have enough free space in (.*)\."
m_free_space(line) ==
  LET J == DotStarThen(line, 5, <<".">>)
  IN  IF startswith(line, <<"E:", " ", "You don't have enough free space in", " ">>) /\ J # {}
      THEN Some(<<SubSeq(line, 5, Max(J) - 1)>>)
      ELSE None

\* "E: Unable to locate package (.*)"
m_locate(line) ==
  IF startswith(line, <<"E:", " ", "Unable to locate package", " ">>)
  THEN Some(<<DotStar(line, 5)>>)
  ELSE None

\* "dpkg: error: (.*)"
m_dpkg_error(line) ==
  IF startswith(line, <<"dpkg: error", ":", " ">>)
  THEN Some(<<DotStar(line, 4)>>)
  ELSE None

NoSpaceSuffix == <<":", " ", "No space left on device">>

\* "dpkg: error processing package (.*) \((.*)\):"
m_dpkg_processing(line) ==
  LET J1 == {j \in DotStarThen(line, 5, <<" ", "(">>) :
               DotStarThen(line, j + 2, <<")", ":">>) # {}}
  IN  IF startswith(line, <<"dpkg: error", " ", "processing package", " ">>) /\ J1 # {}
      THEN LET j1 == Max(J1)
               j2 == Max(DotStarThen(line, j1 + 2, <<")", ":">>))
           IN  Some(<<SubSeq(line, 5, j1 - 1), SubSeq(line, j1 + 2, j2 - 1)>>)
      ELSE None

\* "processing package %s (%s)" % (m.group(1), m.group(2))
ProcessingMessage(g1, g2) ==
  <<"processing package", " ">> \o g1 \o <<" ", "(">> \o g2 \o <<")">>

\* " cannot copy extracted data for '(.*)' to '(.*)': failed to write \(No space left on device\)"
m_cannot_copy(line) ==
  /\ startswith(line, <<" ", "cannot copy extracted data for", " ", "'">>)
  /\ \E j \in DotStarThen(line, 5, <<"'", " ", "to", " ", "'">>) :
       DotStarThen(line, j + 5,
                   <<"'", ":", " ", "failed to write (No space left on device)">>) # {}

\* " .*: No space left on device"
m_no_space(line) ==
  startswith(line, <<" ">>) /\ DotStarThen(line, 2, NoSpaceSuffix) # {}

(***************************************************************************)
(* find_apt_get_failure (apt.py:125-191).                                  *)
(***************************************************************************)
OFFSET == 50

\* The tuple the scanner returns: (line offset, line, error object).
ScanResult(offset, line, error) == <<offset, line, error>>

\* What one iteration of the loop of lines 133-177 does at index lineno with
\* the fallback ret: it returns or raises (stop, with the subscripts it
\* applied to lines), or it goes on with ret.
Stop(out, subs) == [stop |-> TRUE, out |-> out, subs |-> subs]

GoOn(r) == [stop |-> FALSE, ret |-> r]

ScanBody(ls, lineno, r) ==
  LET line == strip(ls[lineno + 1], {"\n"})
      here == Some(lineno + 1)
      text == Some(line)
      r2   == IF startswith(line, <<"E:", " ">>) /\ r[1] = None
              THEN ScanResult(here, text, None) ELSE r
  IN  IF startswith(line, FetchPrefix)
      THEN IF m_fetch(line) # None
           THEN Stop(Return(ScanResult(here, text,
                  Some(AptFetchFailure(m_fetch(line)[1][1], m_fetch(line)[1][2])))), {lineno})
           ELSE Stop(Return(ScanResult(here, text, None)), {lineno})
      ELSE IF line \in BrokenPackagesLines
      THEN LET prev == PyIndex(ls, lineno - 1)
           IN  IF prev = None THEN Stop(Raise("IndexError"), {lineno, lineno - 1})
               ELSE Stop(Return(ScanResult(Some(lineno),
                                           Some(strip(prev[1], Whitespace)),
                                           Some(AptBrokenPackages(strip(prev[1], Whitespace))))),
                         {lineno, lineno - 1})
      ELSE IF m_release(line) # None
      THEN Stop(Return(ScanResult(here, text, Some(AptMissingReleaseFile(m_release(line)[1][1])))), {lineno})
      ELSE IF m_dpkg_deb(line) # None
      THEN Stop(Return(ScanResult(here, text, Some(NoSpaceOnDevice))), {lineno})
      ELSE IF m_free_space(line) # None
      THEN Stop(Return(ScanResult(here, text, Some(NoSpaceOnDevice))), {lineno})
      ELSE IF m_locate(line) # None
      THEN Stop(Return(ScanResult(here, text, Some(AptPackageUnknown(m_locate(line)[1][1])))), {lineno})
      ELSE IF m_dpkg_error(line) # None
      THEN IF endswith(m_dpkg_error(line)[1][1], NoSpaceSuffix)
           THEN Stop(Return(ScanResult(here, text, Some(NoSpaceOnDevice))), {lineno})
           ELSE Stop(Return(ScanResult(here, text, Some(DpkgError(m_dpkg_error(line)[1][1])))), {lineno})
      ELSE IF m_dpkg_processing(line) # None
      THEN LET next == PyIndex(ls, lineno + 1)
               g    == m_dpkg_processing(line)[1]
           IN  IF next = None THEN Stop(Raise("IndexError"), {lineno, lineno + 1})
               ELSE Stop(Return(ScanResult(Some(lineno + 2),
                                           Some(strip(next[1], Whitespace)),
                                           Some(DpkgError(ProcessingMessage(g[1], g[2]))))),
                         {lineno, lineno + 1})
      ELSE GoOn(r2)

\* The loop "for i in range(1, OFFSET)" from i on: the call's outcome when an
\* iteration stops, else the fallback and the value lineno is left with.
\* The loop with a window one line too long: range(1, OFFSET + 1).
RECURSIVE ReversePass_one_more(_, _, _, _)
ReversePass_one_more(ls, i, lineno, r) ==
  IF i > OFFSET THEN [stop |-> FALSE, ret |-> r, lineno |-> lineno]
  ELSE IF Len(ls) - i < 0 THEN [stop |-> FALSE, ret |-> r, lineno |-> Len(ls) - i]
  ELSE LET b == ScanBody(ls, Len(ls) - i, r)
       IN  IF b.stop THEN b ELSE ReversePass_one_more(ls, i + 1, Len(ls) - i, b.ret)

RECURSIVE ReversePass(_, _, _, _)
ReversePass(ls, i, lineno, r) ==
  IF i >= OFFSET THEN [stop |-> FALSE, ret |-> r, lineno |-> lineno]
  ELSE IF Len(ls) - i < 0 THEN [stop |-> FALSE, ret |-> r, lineno |-> Len(ls) - i]
  ELSE LET b == ScanBody(ls, Len(ls) - i, r)
       IN  IF b.stop THEN b ELSE ReversePass(ls, i + 1, Len(ls) - i, b.ret)

\* The loop "for i, line in enumerate(lines)" of lines 179-189 from i on, with
\* lineno as the first loop left it; None when no line matches.
RECURSIVE ForwardPass(_, _, _)
ForwardPass(ls, i, lineno) ==
  IF i >= Len(ls) THEN None
  ELSE IF m_cannot_copy(ls[i + 1])
  THEN Some(ScanResult(Some(lineno + i), Some(ls[i + 1]), Some(NoSpaceOnDevice)))
  ELSE IF m_no_space(ls[i + 1])
  THEN Some(ScanResult(Some(lineno + i), Some(ls[i + 1]), Some(NoSpaceOnDevice)))
  ELSE ForwardPass(ls, i + 1, lineno)

\* The subscripts the iteration that ends the first loop applies to lines.
StopSubscripts(ls) ==
  LET rev == ReversePass(ls, 1, 0, ScanResult(None, None, None))
  IN  IF rev.stop THEN rev.subs ELSE {}

find_apt_get_failure(ls) ==
  LET rev == ReversePass(ls, 1, 0, ScanResult(None, None, None))
  IN  IF rev.stop THEN rev.out
      ELSE LET fwd == ForwardPass(ls, 0, rev.lineno)
           IN  IF fwd # None THEN Return(fwd[1]) ELSE Return(rev.ret)

(***************************************************************************)
(* find_cudf_output (apt.py:201-212).                                      *)
(***************************************************************************)
OutputVersionPrefix == <<"output-version:", " ">>

\* The loop "for i in range(len(lines) - 1, 0, -1)" from i on: Some(i) when
\* it breaks at i, None when it runs out (the else branch).
RECURSIVE FindOutputVersion(_, _)
FindOutputVersion(ls, i) ==
  IF i <= 0 THEN None
  ELSE IF startswith(ls[i + 1], OutputVersionPrefix) THEN Some(i)
  ELSE FindOutputVersion(ls, i - 1)

\* The loop "while lines[i].strip()" from i on with the lines collected so
\* far: Some(output) when a blank line ends it, None when lines[i] raises
\* IndexError.
RECURSIVE CollectBlock(_, _, _)
CollectBlock(ls, i, output) ==
  IF PyIndex(ls, i) = None THEN None
  ELSE IF strip(ls[i + 1], Whitespace) = <<>> THEN Some(output)
  ELSE CollectBlock(ls, i + 1, Append(output, ls[i + 1]))

\* "\n".join(output)
RECURSIVE join(_)
join(output) ==
  IF output = <<>> THEN <<>>
  ELSE IF Len(output) = 1 THEN output[1]
  ELSE output[1] \o <<"\n">> \o join(Tail(output))

\* The lines of a text, as the YAML reader sees them.
RECURSIVE splitlines(_)
splitlines(text) ==
  LET nl == {k \in 1..Len(text) : text[k] = "\n"}
  IN  IF nl = {} THEN <<text>>
      ELSE <<SubSeq(text, 1, Min(nl) - 1)>> \o splitlines(From(text, Min(nl) + 1))

\* yaml.safe_load on the dialect the dose3 logs of this model are written
\* in: one top-level "key: value" line per scalar, "report:" opening a list
\* of entries, "- package: p" opening an entry, "  status: s" setting its
\* status, "  - missing: d" and "  - conflict: d" opening a reason of the
\* entry and "    missing: d", "    conflict: d" adding to the open reason.
\* The nested mappings missing.pkg.unsat-dependency and
\* conflict.pkg1.unsat-conflict are written on one line.
Entry(package, status, reasons) == [package |-> package, status |-> status, reasons |-> reasons]

AddReason(entries, reason) ==
  [entries EXCEPT ![Len(entries)].reasons = Append(@, reason)]

AmendReason(entries, key, value) ==
  LET n == Len(entries)
      m == Len(entries[n].reasons)
  IN  IF key = "missing:"
      THEN [entries EXCEPT ![n].reasons[m].missing = Some(value)]
      ELSE [entries EXCEPT ![n].reasons[m].conflict = Some(value)]

RECURSIVE LoadLines(_, _)
LoadLines(ls, doc) ==
  IF ls = <<>> THEN doc
  ELSE LET l == Head(ls)
           n == Len(doc.report)
       IN  LoadLines(Tail(ls),
             IF l = <<"report:">> THEN [doc EXCEPT !.has_report = TRUE]
             ELSE IF startswith(l, <<"-", " ", "package:", " ">>)
             THEN [doc EXCEPT !.report = Append(@, Entry(From(l, 5), <<>>, <<>>))]
             ELSE IF startswith(l, <<" ", " ", "status:", " ">>) /\ n > 0
             THEN [doc EXCEPT !.report[n].status = From(l, 5)]
             ELSE IF startswith(l, <<" ", " ", "-", " ", "missing:", " ">>) /\ n > 0
             THEN [doc EXCEPT !.report =
                     AddReason(@, [missing |-> Some(From(l, 7)), conflict |-> None])]
             ELSE IF startswith(l, <<" ", " ", "-", " ", "conflict:", " ">>) /\ n > 0
             THEN [doc EXCEPT !.report =
                     AddReason(@, [missing |-> None, conflict |-> Some(From(l, 7))])]
             ELSE IF /\ startswith(l, <<" ", " ", " ", " ">>) /\ Len(l) >= 7
                     /\ l[5] \in {"missing:", "conflict:"}
                     /\ n > 0 /\ doc.report[n].reasons # <<>>
             THEN [doc EXCEPT !.report = AmendReason(@, l[5], From(l, 7))]
             ELSE doc)

safe_load(text) == LoadLines(splitlines(text), [has_report |-> FALSE, report |-> <<>>])

\* The index the first loop of find_cudf_output leaves in i.
cudf_start(ls) == FindOutputVersion(ls, Len(ls) - 1)

\* The lines find_cudf_output joins for the decoder, None when collecting
\* them raises IndexError.
cudf_block(ls) == CollectBlock(ls, cudf_start(ls)[1], <<>>)

find_cudf_output(ls) ==
  IF cudf_start(ls) = None THEN Return(None)
  ELSE IF cudf_block(ls) = None THEN Raise("IndexError")
  ELSE Return(Some(safe_load(join(cudf_block(ls)[1]))))

(***************************************************************************)
(* error_from_dose3_report (apt.py:249-270).                               *)
(***************************************************************************)
DummyPackage == <<"sbuild-build-depends-main-dummy">>

\* The parts of s between the tokens sep.
RECURSIVE split(_, _)
split(s, sep) ==
  LET at == {k \in 1..Len(s) : s[k] = sep}
  IN  IF at = {} THEN <<s>>
      ELSE <<SubSeq(s, 1, Min(at) - 1)>> \o split(From(s, Min(at) + 1), sep)

\* PkgRelation.parse_relations: the comma-separated groups of a relation
\* field, each the sequence of its "|"-separated alternatives.
ParseRel(atom) == [name |-> strip(atom, Whitespace)]

parse_relations(raw) ==
  LET groups == split(strip(raw, Whitespace), ",")
  IN  [g \in 1..Len(groups) |->
         LET alts == split(groups[g], "|")
         IN  [a \in 1..Len(alts) |-> ParseRel(alts[a])]]

\* The loop over report[0]["reasons"] of lines 256-266 with its two
\* accumulators.
RECURSIVE ScanReasons(_, _, _)
ScanReasons(reasons, missing, conflict) ==
  IF reasons = <<>> THEN [missing |-> missing, conflict |-> conflict]
  ELSE LET reason == Head(reasons)
           m2 == IF reason.missing # None
                 THEN missing \o parse_relations(reason.missing[1]) ELSE missing
           c2 == IF reason.conflict # None
                 THEN conflict \o parse_relations(reason.conflict[1]) ELSE conflict
       IN  ScanReasons(Tail(reasons), m2, c2)

\* The interpreter with the two final tests in the other order.
error_from_dose3_report_conflict_first(rep) ==
  LET packages == [k \in 1..Len(rep) |-> rep[k].package]
  IN  IF packages # <<DummyPackage>> THEN Raise("AssertionError")
      ELSE IF rep[1].status # <<"broken">> THEN Return(None)
      ELSE LET acc == ScanReasons(rep[1].reasons, <<>>, <<>>)
           IN  IF acc.conflict # <<>>
               THEN Return(Some(UnsatisfiedConflicts(acc.conflict)))
               ELSE IF acc.missing # <<>>
               THEN Return(Some(UnsatisfiedDependencies(acc.missing)))
               ELSE Return(None)

error_from_dose3_report(rep) ==
  LET packages == [k \in 1..Len(rep) |-> rep[k].package]
  IN  IF packages # <<DummyPackage>> THEN Raise("AssertionError")
      ELSE IF rep[1].status # <<"broken">> THEN Return(None)
      ELSE LET acc == ScanReasons(rep[1].reasons, <<>>, <<>>)
           IN  IF acc.missing # <<>>
               THEN Return(Some(UnsatisfiedDependencies(acc.missing)))
               ELSE IF acc.conflict # <<>>
               THEN Return(Some(UnsatisfiedConflicts(acc.conflict)))
               ELSE Return(None)

(***************************************************************************)
(* find_install_deps_failure_description (apt.py:273-292).  paragraphs is  *)
(* the dict as the sequence of its items <<key, lines>> in iteration       *)
(* order; a key is None or Some(name).                                     *)
(***************************************************************************)
DOSE3_SECTION ==
  <<"install", " ", "dose3", " ", "build dependencies", " ", "(aspcud-based resolver)">>

\* paragraphs.get(key)
get(ps, key) ==
  LET at == {k \in 1..Len(ps) : ps[k][1] = Some(key)}
  IN  IF at = {} THEN None ELSE Some(ps[Min(at)][2])

\* re.match("install (.*) build dependencies.*", focus_section)
m_install(name) ==
  /\ startswith(name, <<"install", " ">>)
  /\ DotStarThen(name, 3, <<" ", "build dependencies">>) # {}

\* Lines 276-280: the value error has before the loop, or the exception.
dose3_error(ps) ==
  LET dose3_lines == get(ps, DOSE3_SECTION)
  IN  IF dose3_lines = None \/ dose3_lines = Some(<<>>) THEN Return(None)
      ELSE LET dose3_output == find_cudf_output(dose3_lines[1])
           IN  IF dose3_output.kind = "raise" THEN dose3_output
               ELSE IF dose3_output.value = None THEN Return(None)
               ELSE IF ~dose3_output.value[1].has_report THEN Raise("KeyError")
               ELSE error_from_dose3_report(dose3_output.value[1].report)

\* The loop "for focus_section, lines in paragraphs.items()" from item k on;
\* focus is None while focus_section is unbound, else Some(its value).
RECURSIVE SectionsLoop(_, _, _, _)
SectionsLoop(ps, k, focus, error) ==
  IF k > Len(ps)
  THEN IF focus = None THEN Raise("UnboundLocalError")
       ELSE Return(<<focus[1], None, None, error>>)
  ELSE LET focus_section == ps[k][1]
       IN  IF focus_section = None
           THEN SectionsLoop(ps, k + 1, Some(focus_section), error)
           ELSE IF m_install(focus_section[1])
           THEN LET r == find_apt_get_failure(ps[k][2])
                IN  IF r.kind = "raise" THEN r
                    ELSE LET error2 == IF error = None THEN r.value[3] ELSE error
                         IN  IF r.value[1] # None
                             THEN Return(<<focus_section, r.value[1], r.value[2], error2>>)
                             ELSE SectionsLoop(ps, k + 1, Some(focus_section), error2)
           ELSE SectionsLoop(ps, k + 1, Some(focus_section), error)

find_install_deps_failure_description(ps) ==
  LET error == dose3_error(ps)
  IN  IF error.kind = "raise" THEN error
      ELSE SectionsLoop(ps, 1, None, error.value)

(***************************************************************************)
(* Inputs of the scanner.                                                  *)
(***************************************************************************)
TextLine == <<"Reading package lists...">>

ContextLine == <<" ", "some context", "\n">>

FetchLine == <<"E:", " ", "Failed to fetch", " ", "http://a/Packages", " ", " ", "404", " ", "Not Found">>

FetchOddLine == <<"E:", " ", "Failed to fetch", " ", "http://a/Packages">>

BrokenLine == <<"E:", " ", "Broken packages">>

HeldLine == <<"E:", " ", "Unable to correct problems, you have held broken packages.", "\n">>

ReleaseLine == <<"E:", " ", "The repository", " ", "'", "http://a", " ", "sid", "'", " ", "does not have a Release file", ".">>

DpkgDebLine == <<"dpkg-deb: error: unable to write file", " ", "'", "/f", "'", ":", " ", "No space left on device">>

FreeSpaceLine == <<"E:", " ", "You don't have enough free space in", " ", "/var/cache", ".">>

GenericELine == <<"E:", " ", "Sub-process /usr/bin/dpkg returned an error code (1)">>

OtherELine == <<"E:", " ", "Unmet dependencies", "\n">>

LocateLine == <<"E:", " ", "Unable to locate package", " ", "foo">>

DpkgNoSpaceLine == <<"dpkg: error", ":", " ", "/var/foo", ":", " ", "No space left on device">>

DpkgErrorLine == <<"dpkg: error", ":", " ", "unable to access dpkg status area">>

ProcessingLine == <<"dpkg: error", " ", "processing package", " ", "foo", " ", "(", "--configure", ")", ":">>

CannotCopyLine == <<" ", "cannot copy extracted data for", " ", "'", "./a", "'", " ", "to", " ", "'", "/a.dpkg-new", "'", ":", " ", "failed to write (No space left on device)">>

DiskImgLine == <<" ", "disk.img", ":", " ", "No space left on device", "\n">>

IndentedLocateLine == <<" ", "E:", " ", "Unable to locate package", " ", "foo">>

\* The lines short inputs are made of: one or two for each pattern.
FullLines ==
  { TextLine, ContextLine, FetchLine, FetchOddLine, BrokenLine, HeldLine,
    ReleaseLine, DpkgDebLine, FreeSpaceLine, GenericELine, OtherELine,
    LocateLine, DpkgNoSpaceLine, DpkgErrorLine, ProcessingLine,
    CannotCopyLine, DiskImgLine, IndentedLocateLine }

\* The lines put before and after a long run of text.
CoreLines ==
  { ContextLine, BrokenLine, GenericELine, OtherELine, LocateLine,
    ProcessingLine, CannotCopyLine, DiskImgLine }

MaxShort == 2

MaxHead == 1

MaxTail == 1

SeqsUpTo(S, n) == UNION {[1..k -> S] : k \in 0..n}

Pad(n) == [k \in 1..n |-> TextLine]

\* Lengths of the run of text: none, and those that put the head of the
\* input just inside and just outside the window of the scanner.
PadLens == {0} \cup ((OFFSET - 5)..(OFFSET - 1))

ScanInputs ==
  SeqsUpTo(FullLines, MaxShort)
    \cup {h \o Pad(n) \o t : h \in SeqsUpTo(CoreLines, MaxHead),
                              t \in SeqsUpTo(CoreLines, MaxTail),
                              n \in PadLens}

NoReport == <<>>

NoParagraphs == <<>>

NoProblem == [variant |-> "none"]

Pending == [kind |-> "pending"]

InitScan ==
  /\ pc = "find_apt_get_failure"
  /\ lines \in ScanInputs
  /\ report = NoReport
  /\ paragraphs = NoParagraphs
  /\ self = NoProblem
  /\ other = NoProblem
  /\ ret = Pending

Scan ==
  /\ pc = "find_apt_get_failure"
  /\ ret' = find_apt_get_failure(lines)
  /\ pc' = "done"
  /\ UNCHANGED <<lines, report, paragraphs, self, other>>

NextScan == Scan

SpecScan == InitScan /\ [][NextScan]_vars

(***************************************************************************)
(* Inputs of find_cudf_output.                                             *)
(***************************************************************************)
OutputVersionLine == <<"output-version:", " ", "1.2">>

ReportLine == <<"report:">>

BlankLine == <<>>

SpacesLine == <<" ", " ", "\n">>

CudfLines == {OutputVersionLine, ReportLine, BlankLine, SpacesLine, TextLine}

MaxCudfLines == 4

InitCudf ==
  /\ pc = "find_cudf_output"
  /\ lines \in SeqsUpTo(CudfLines, MaxCudfLines)
  /\ report = NoReport
  /\ paragraphs = NoParagraphs
  /\ self = NoProblem
  /\ other = NoProblem
  /\ ret = Pending

Cudf ==
  /\ pc = "find_cudf_output"
  /\ ret' = find_cudf_output(lines)
  /\ pc' = "done"
  /\ UNCHANGED <<lines, report, paragraphs, self, other>>

NextCudf == Cudf

SpecCudf == InitCudf /\ [][NextCudf]_vars

(***************************************************************************)
(* Inputs of error_from_dose3_report.                                      *)
(***************************************************************************)
RelationFields ==
  { <<"libfoo-dev">>,
    <<"libbar-dev", ",", " ", "baz", " ", "|", " ", "qux">> }

MaybeRelation == {None} \cup {Some(f) : f \in RelationFields}

Reasons == [missing : MaybeRelation, conflict : MaybeRelation]

MaxReasons == 2

Entries ==
  { Entry(p, st, rs) : p \in {DummyPackage, <<"other-package">>},
                       st \in {<<"broken">>, <<"ok">>},
                       rs \in SeqsUpTo(Reasons, MaxReasons) }

\* A second entry, for reports that list more than one package.
SecondEntries ==
  { Entry(DummyPackage, <<"broken">>, <<>>), Entry(<<"other-package">>, <<"ok">>, <<>>) }

Reports ==
  {<<>>} \cup {<<e>> : e \in Entries}
         \cup {<<e, f>> : e \in Entries, f \in SecondEntries}

InitDose3 ==
  /\ pc = "error_from_dose3_report"
  /\ lines = <<>>
  /\ report \in Reports
  /\ paragraphs = NoParagraphs
  /\ self = NoProblem
  /\ other = NoProblem
  /\ ret = Pending

Dose3 ==
  /\ pc = "error_from_dose3_report"
  /\ ret' = error_from_dose3_report(report)
  /\ pc' = "done"
  /\ UNCHANGED <<lines, report, paragraphs, self, other>>

NextDose3 == Dose3

SpecDose3 == InitDose3 /\ [][NextDose3]_vars

(***************************************************************************)
(* Inputs of the comparison of two problems.                               *)
(***************************************************************************)
Texts == {<<"http://a">>, <<"http://b">>}

MaxRelations == 2

RelationLists == SeqsUpTo({parse_relations(f)[1] : f \in RelationFields}, MaxRelations)

Problems ==
  {DpkgError(t) : t \in Texts}
    \cup {AptFetchFailure(u, e) : u \in Texts, e \in Texts}
    \cup {AptMissingReleaseFile(u) : u \in Texts}
    \cup {AptPackageUnknown(t) : t \in Texts}
    \cup {AptBrokenPackages(t) : t \in Texts}
    \cup {UnsatisfiedDependencies(r) : r \in RelationLists}
    \cup {UnsatisfiedConflicts(r) : r \in RelationLists}

InitEq ==
  /\ pc = "__eq__"
  /\ lines = <<>>
  /\ report = NoReport
  /\ paragraphs = NoParagraphs
  /\ self \in Problems
  /\ other \in Problems
  /\ ret = Pending

Compare ==
  /\ pc = "__eq__"
  /\ ret' = Return(Eq(self, other))
  /\ pc' = "done"
  /\ UNCHANGED <<lines, report, paragraphs, self, other>>

NextEq == Compare

SpecEq == InitEq /\ [][NextEq]_vars

(***************************************************************************)
(* Inputs of find_install_deps_failure_description.                        *)
(***************************************************************************)
BuildSection == <<"build">>

AptSection ==
  <<"install", " ", "core", " ", "build dependencies", " ", "(apt-based resolver)">>

ExtraSection == <<"install", " ", "extra", " ", "build dependencies">>

\* The resolver's output for one package with one reason.
Dose3Block(package, status, reason) ==
  << OutputVersionLine,
     ReportLine,
     <<"-", " ", "package:", " ">> \o package,
     <<" ", " ", "status:", " ">> \o status,
     <<" ", " ", "reasons:">> >> \o reason

MissingReason == << <<" ", " ", "-", " ", "missing:", " ", "libfoo-dev">> >>

ConflictReason == << <<" ", " ", "-", " ", "conflict:", " ", "libbar-dev", ",", " ", "baz">> >>

BothReason == MissingReason \o << <<" ", " ", " ", " ", "conflict:", " ", "baz">> >>

Dose3Logs ==
  { <<>>,
    <<TextLine>> \o Dose3Block(DummyPackage, <<"broken">>, MissingReason)
                 \o <<BlankLine, GenericELine>>,
    <<TextLine>> \o Dose3Block(DummyPackage, <<"broken">>, BothReason)
                 \o <<SpacesLine, TextLine>>,
    <<TextLine>> \o Dose3Block(DummyPackage, <<"broken">>, ConflictReason)
                 \o <<BlankLine, LocateLine>>,
    <<TextLine>> \o Dose3Block(DummyPackage, <<"ok">>, <<>>) \o <<BlankLine, GenericELine>>,
    <<TextLine>> \o Dose3Block(DummyPackage, <<"broken">>, MissingReason),
    Dose3Block(DummyPackage, <<"broken">>, MissingReason) \o <<BlankLine, GenericELine>>,
    <<TextLine>> \o Dose3Block(<<"other-package">>, <<"broken">>, MissingReason)
                 \o <<BlankLine>>,
    <<TextLine, OutputVersionLine, BlankLine, GenericELine>> }

Sections ==
  { <<None, <<TextLine>>>>,
    <<Some(BuildSection), <<LocateLine>>>>,
    <<Some(AptSection), <<TextLine>>>>,
    <<Some(AptSection), <<TextLine, LocateLine>>>>,
    <<Some(AptSection), <<GenericELine, TextLine>>>>,
    <<Some(AptSection), <<TextLine, ProcessingLine>>>>,
    <<Some(ExtraSection), <<TextLine>>>>,
    <<Some(ExtraSection), <<ContextLine, BrokenLine>>>> }
    \cup {<<Some(DOSE3_SECTION), l>> : l \in Dose3Logs}

MaxSections == 3

\* The dicts with at most MaxSections items: no key occurs twice.
SectionMaps ==
  {ps \in SeqsUpTo(Sections, MaxSections) :
     \A j, k \in 1..Len(ps) : j # k => ps[j][1] # ps[k][1]}

InitInstall ==
  /\ pc = "find_install_deps_failure_description"
  /\ lines = <<>>
  /\ report = NoReport
  /\ paragraphs \in SectionMaps
  /\ self = NoProblem
  /\ other = NoProblem
  /\ ret = Pending

Install ==
  /\ pc = "find_install_deps_failure_description"
  /\ ret' = find_install_deps_failure_description(paragraphs)
  /\ pc' = "done"
  /\ UNCHANGED <<lines, report, paragraphs, self, other>>

NextInstall == Install

SpecInstall == InitInstall /\ [][NextInstall]_vars

(***************************************************************************)
(* Properties of find_apt_get_failure.                                     *)
(***************************************************************************)
Returned == pc = "done" /\ ret.kind = "return"

\* The indices the first loop may visit: len-1 down to max(0, len-(OFFSET-1)).
Window(ls) == {k \in 0..(Len(ls) - 1) : k >= Len(ls) - (OFFSET - 1)}

Stripped(ls, k) == strip(ls[k + 1], {"\n"})

\* The line matches one of the signatures that end the first loop.
IsStopping(line) ==
  \/ startswith(line, FetchPrefix)
  \/ line \in BrokenPackagesLines
  \/ m_release(line) # None
  \/ m_dpkg_deb(line) # None
  \/ m_free_space(line) # None
  \/ m_locate(line) # None
  \/ m_dpkg_error(line) # None
  \/ m_dpkg_processing(line) # None

StoppingIn(ls) == {k \in Window(ls) : IsStopping(Stripped(ls, k))}

DiskSpaceIn(ls) == {k \in 0..(Len(ls) - 1) : m_cannot_copy(ls[k + 1]) \/ m_no_space(ls[k + 1])}

FallbackIn(ls) == {k \in Window(ls) : startswith(Stripped(ls, k), <<"E:", " ">>)}

\* C2: a returned offset that is not None is a position 1..len(lines), and
\* the returned text is the text of the line at that position (as it is,
\* stripped of newlines, or trimmed).
C2_OffsetIsPositionOfText ==
  (Returned /\ ret.value[1] # None) =>
    LET off == ret.value[1][1]
    IN  /\ off \in 1..Len(lines)
        /\ ret.value[2] \in { Some(lines[off]),
                              Some(strip(lines[off], {"\n"})),
                              Some(strip(lines[off], Whitespace)) }

\* The problem the priority order gives the line at index k; for the
\* broken-packages lines, whose description is another line's text, only the
\* variant is determined by the line itself.
ProblemOfLine(ls, k, problem) ==
  LET line == Stripped(ls, k)
  IN  IF startswith(line, FetchPrefix)
      THEN IF m_fetch(line) # None
           THEN problem = Some(AptFetchFailure(m_fetch(line)[1][1], m_fetch(line)[1][2]))
           ELSE problem = None
      ELSE IF line \in BrokenPackagesLines
      THEN problem # None /\ problem[1].variant = "AptBrokenPackages"
      ELSE IF m_release(line) # None
      THEN problem = Some(AptMissingReleaseFile(m_release(line)[1][1]))
      ELSE IF m_dpkg_deb(line) # None \/ m_free_space(line) # None
      THEN problem = Some(NoSpaceOnDevice)
      ELSE IF m_locate(line) # None
      THEN problem = Some(AptPackageUnknown(m_locate(line)[1][1]))
      ELSE IF m_dpkg_error(line) # None
      THEN IF endswith(m_dpkg_error(line)[1][1], NoSpaceSuffix)
           THEN problem = Some(NoSpaceOnDevice)
           ELSE problem = Some(DpkgError(m_dpkg_error(line)[1][1]))
      ELSE LET g == m_dpkg_processing(line)[1]
           IN  problem = Some(DpkgError(ProcessingMessage(g[1], g[2])))

\* C3: when a line of the window matches a stopping signature, the call
\* returns the problem of the matching line with the greatest index.
C3_LastStoppingLineDecides ==
  (pc = "done" /\ StoppingIn(lines) # {}) =>
    /\ ret.kind = "return"
    /\ ProblemOfLine(lines, Max(StoppingIn(lines)), ret.value[3])

\* The same for the calls that return: it holds, the calls that raise are
\* the only ones that break the property above.
LastStoppingLineDecidesWhenReturned ==
  (Returned /\ StoppingIn(lines) # {}) =>
    ProblemOfLine(lines, Max(StoppingIn(lines)), ret.value[3])

\* C4: when no line of the window matches a stopping signature, the result
\* is NoSpaceOnDevice with the first disk-space line of the whole sequence
\* if there is one, else the fallback "E: " line of the window nearest the
\* end, else (None, None, None).
C4_NoStoppingLine ==
  (pc = "done" /\ StoppingIn(lines) = {}) =>
    /\ ret.kind = "return"
    /\ IF DiskSpaceIn(lines) # {}
       THEN /\ ret.value[3] = Some(NoSpaceOnDevice)
            /\ ret.value[2] = Some(lines[Min(DiskSpaceIn(lines)) + 1])
       ELSE IF FallbackIn(lines) # {}
       THEN ret.value = ScanResult(Some(Max(FallbackIn(lines)) + 1),
                                   Some(Stripped(lines, Max(FallbackIn(lines)))),
                                   None)
       ELSE ret.value = ScanResult(None, None, None)

\* A disk-space line outside the window wins over a recorded fallback.
C4_Witness ==
  /\ Returned
  /\ StoppingIn(lines) = {}
  /\ FallbackIn(lines) # {}
  /\ DiskSpaceIn(lines) # {}
  /\ Min(DiskSpaceIn(lines)) \notin Window(lines)
  /\ ret.value[3] = Some(NoSpaceOnDevice)

\* C10: every call returns a Scan Result and applies to lines only
\* subscripts in 0..len(lines)-1.
C10_ReturnsWithinBounds ==
  pc = "done" =>
    /\ ret.kind = "return"
    /\ StopSubscripts(lines) \subseteq 0..(Len(lines) - 1)

(***************************************************************************)
(* Properties of the equality of problems.                                 *)
(***************************************************************************)
\* C1: a == b holds exactly when a and b are the same variant with equal
\* fields.
C1_EqIffSameVariantAndFields ==
  pc = "done" => (ret.value <=> (self = other))

(***************************************************************************)
(* Properties of find_cudf_output.                                         *)
(***************************************************************************)
OutputVersionIn(ls) == {k \in 0..(Len(ls) - 1) : startswith(ls[k + 1], OutputVersionPrefix)}

BlankAfter(ls, start) == {k \in start..(Len(ls) - 1) : strip(ls[k + 1], Whitespace) = <<>>}

\* The lines from index start up to the first blank line, or to the end.
RunFrom(ls, start) ==
  IF BlankAfter(ls, start) = {} THEN SubSeq(ls, start + 1, Len(ls))
  ELSE SubSeq(ls, start + 1, Min(BlankAfter(ls, start)))

\* C5: the result is None exactly when no line starts with
\* "output-version: ", and otherwise the block starts at the last such line.
C5_NotFoundIffNoOutputVersion ==
  pc = "done" =>
    /\ (ret = Return(None)) <=> (OutputVersionIn(lines) = {})
    /\ OutputVersionIn(lines) # {} =>
         cudf_start(lines) = Some(Max(OutputVersionIn(lines)))

\* C6: when a line starts with "output-version: ", the call returns and the
\* block given to the decoder is the run of non-blank lines from the last
\* such line.
C6_BlockIsRunOfNonBlankLines ==
  (pc = "done" /\ OutputVersionIn(lines) # {}) =>
    /\ ret.kind = "return"
    /\ cudf_start(lines) # None
    /\ cudf_block(lines) = Some(RunFrom(lines, Max(OutputVersionIn(lines))))

(***************************************************************************)
(* Properties of error_from_dose3_report.                                  *)
(***************************************************************************)
RECURSIVE Concat(_)
Concat(ss) == IF ss = <<>> THEN <<>> ELSE Head(ss) \o Concat(Tail(ss))

MissingOf(reasons) ==
  Concat([k \in 1..Len(reasons) |->
            IF reasons[k].missing = None THEN <<>>
            ELSE parse_relations(reasons[k].missing[1])])

ConflictOf(reasons) ==
  Concat([k \in 1..Len(reasons) |->
            IF reasons[k].conflict = None THEN <<>>
            ELSE parse_relations(reasons[k].conflict[1])])

\* C7: a report that does not list exactly the dummy package raises the
\* precondition fault; else a status other than broken gives no problem; else
\* the missing relations, in reason order, give UnsatisfiedDependencies, else
\* the conflict relations give UnsatisfiedConflicts, else no problem.
C7_InterpreterReference ==
  pc = "done" =>
    IF Len(report) # 1 \/ report[1].package # DummyPackage
    THEN ret = Raise("AssertionError")
    ELSE IF report[1].status # <<"broken">>
    THEN ret = Return(None)
    ELSE IF MissingOf(report[1].reasons) # <<>>
    THEN ret = Return(Some(UnsatisfiedDependencies(MissingOf(report[1].reasons))))
    ELSE IF ConflictOf(report[1].reasons) # <<>>
    THEN ret = Return(Some(UnsatisfiedConflicts(ConflictOf(report[1].reasons))))
    ELSE ret = Return(None)

\* A broken dummy package with missing and conflict relations in two
\* reasons gives UnsatisfiedDependencies.
C7_Witness ==
  /\ pc = "done"
  /\ Len(report) = 1
  /\ Len(report[1].reasons) = 2
  /\ report[1].reasons[1].missing # report[1].reasons[2].missing
  /\ \A k \in 1..2 : report[1].reasons[k].missing # None
  /\ \E k \in 1..2 : report[1].reasons[k].conflict # None
  /\ ret.kind = "return"
  /\ ret.value # None
  /\ ret.value[1].variant = "UnsatisfiedDependencies"

(***************************************************************************)
(* Properties of find_install_deps_failure_description.                    *)
(***************************************************************************)
\* The items whose section the scanner is run on.
Matching(ps) == {k \in 1..Len(ps) : ps[k][1] # None /\ m_install(ps[k][1][1])}

\* The matching items whose scan gives an offset.
Located(ps) ==
  {k \in Matching(ps) :
     LET r == find_apt_get_failure(ps[k][2])
     IN  r.kind = "return" /\ r.value[1] # None}

\* The problem the dose3 path produces, None when it produces none.
Candidate(ps) == IF dose3_error(ps).kind = "return" THEN dose3_error(ps).value ELSE None

\* The decoded report violates the structural precondition: the fatal fault
\* of the interpreter, which no result tuple stands for.
StructuralFault(ps) == dose3_error(ps) \in {Raise("AssertionError"), Raise("KeyError")}

\* C8: when a matching section gives an offset, the result is the first
\* such section with its offset and line, and the dose3 candidate if there
\* is one, else the scanner's problem.
C8_FirstLocatedSectionWins ==
  (pc = "done" /\ ~StructuralFault(paragraphs) /\ Located(paragraphs) # {}) =>
    LET k == Min(Located(paragraphs))
        r == find_apt_get_failure(paragraphs[k][2]).value
    IN  ret = Return(<<paragraphs[k][1], r[1], r[2],
                       IF Candidate(paragraphs) # None THEN Candidate(paragraphs) ELSE r[3]>>)

\* C9: when no matching section gives an offset, the call returns the last
\* section the scanner examined, or None, with no offset and no line, and
\* the dose3 candidate.
C9_NoLocatedSection ==
  (pc = "done" /\ ~StructuralFault(paragraphs) /\ Located(paragraphs) = {}) =>
    ret = Return(<<IF Matching(paragraphs) = {} THEN None
                   ELSE paragraphs[Max(Matching(paragraphs))][1],
                   None, None, Candidate(paragraphs)>>)

====
